---- MODULE Spec2Model ----
(***************************************************************************)
(* A model of claude-sync's resource synchronization engine: the resource  *)
(* handlers (sessions, agents, settings), the git and S3 backends, the     *)
(* sync state store, and the push and pull commands.                       *)
(*                                                                         *)
(* Ids, local paths and remote keys are sequences of tokens; "/" and "_"   *)
(* are the path separator and its placeholder, ".conflict" is the marker   *)
(* of a keep-both copy and "unknown" the fallback project.  A local path   *)
(* is kept relative to its type's directory and without its extension.     *)
(***************************************************************************)
EXTENDS Integers, Sequences, FiniteSets, TLC

VARIABLES
  initialized,     \* config?.initialized as loadConfig returns it
  backendKind,     \* config.backend: "git" or "s3"
  localFiles,      \* [type -> [path -> content]]: the files under ~/.claude
  remote,          \* [type -> [key -> payload]]: the objects the backend holds
  syncState,       \* [type -> [id -> hash]]: ~/.claude-sync/sync-state.json
  pc,              \* where the running command is
  opts,            \* the options of the running command
  typesLeft,       \* the resource types the command has still to handle
  remoteResources, \* pullResourceType: the remote listing (ids)
  conflicts,       \* pullResourceType: conflicts, each [id, localPath]
  cidx,            \* pullResourceType: index of the next conflict to prompt for
  toPull,          \* pullResourceType: ids to pull
  pidx,            \* pullResourceType: index of the next id to pull
  hashUpdates,     \* pullResourceType: [id, hash] to record
  counts,          \* pulled/failed/keptLocal/keptRemote/keptBoth/resolvedConflicts/pushed
  resources,       \* pushResourceType: the items to push, each [id, path]
  encryptedResources, \* pushResourceType: [id, data] encrypted so far
  eidx,            \* pushResourceType: start of the next encrypt batch
  exitCode,        \* exit code of the last command (0, or 1 after process.exit(1))
  trace,           \* what the running (or last) command did, for the properties
  opsDone,         \* number of commands started
  editsDone,       \* number of local edits made by the user
  transferred,     \* per type: id -> hash of the bytes of its latest completed
                   \* transfer (a push the backend accepted, a pull written)
  stateFile,       \* sync-state.json as the store's functions meet it on disk
  updaters,        \* the update calls of the store in flight, each with its
                   \* position and the state it loaded
  input,           \* the arguments a function is applied to
  output           \* what the function returned

vars == <<initialized, backendKind, localFiles, remote, syncState, pc, opts,
          typesLeft, remoteResources, conflicts, cidx, toPull, pidx,
          hashUpdates, counts, resources, encryptedResources, eidx, exitCode,
          trace, opsDone, editsDone, transferred, stateFile, updaters,
          input, output>>

----------------------------------------------------------------------------
(* Bounds of the model *)

\* Commands (push or pull invocations) in one behaviour.
MaxOps == 1
\* Edits the user makes to local files in one behaviour.
MaxEdits == 1

(* Program constants *)
ENCRYPT_BATCH_SIZE == 20
IV_LENGTH == 12
AUTH_TAG_LENGTH == 16
MIN_ENCRYPTED_SIZE == IV_LENGTH + AUTH_TAG_LENGTH + 1

ALL_RESOURCE_TYPES == <<"sessions", "agents", "settings">>
ResourceTypes == {"sessions", "agents", "settings"}

\* RESOURCE_CONFIGS[type].strategy
strategy(type) == IF type = "settings" THEN "merge" ELSE "full"

SETTINGS_ID == <<"settings">>

----------------------------------------------------------------------------
(* Sequences of tokens *)

Has(s, ch) == \E i \in 1..Len(s) : s[i] = ch

FirstIdx(s, ch) == CHOOSE i \in 1..Len(s) : s[i] = ch /\ \A j \in 1..(i-1) : s[j] # ch

LastIdx(s, ch) == CHOOSE i \in 1..Len(s) : s[i] = ch /\ \A j \in (i+1)..Len(s) : s[j] # ch

\* s.replace(/from/g, to) for one-token patterns
ReplaceAll(s, from, to) == [i \in 1..Len(s) |-> IF s[i] = from THEN to ELSE s[i]]

\* id.includes("/") ? id.split("/").pop() : id
basenameOf(id) == IF Has(id, "/") THEN SubSeq(id, LastIdx(id, "/") + 1, Len(id)) ELSE id

\* path.dirname of a relative path; "." when it has no directory part
dirnameOf(p) == IF Has(p, "/") THEN SubSeq(p, 1, LastIdx(p, "/") - 1) ELSE <<".">>

RECURSIVE Perms(_)
Perms(S) == IF S = {} THEN {<<>>}
            ELSE UNION {{<<x>> \o p : p \in Perms(S \ {x})} : x \in S}

Range(s) == {s[i] : i \in 1..Len(s)}

\* f with x mapped to v (x added to the domain when new)
Put(f, x, v) == [y \in DOMAIN f \cup {x} |-> IF y = x THEN v ELSE f[y]]

EmptyMap == [y \in {} |-> {}]

----------------------------------------------------------------------------
(* File contents *)

JsonKeys == {"mode", "tags"}

\* A JSON object maps each key to <<>> (absent), <<"s", v>> (a scalar),
\* <<"a", e1, ...>> (an array) or <<"o", r>> (a nested object).
NoObj == [k \in JsonKeys |-> <<>>]

\* A content is [fmt, txt, obj]: "text" is valid UTF-8 text that is not
\* JSON, "bin" holds bytes that are not valid UTF-8, "json" is a JSON
\* object, written compactly or as JSON.stringify(o, null, 2) writes it.
Text(t) == [fmt |-> "text", txt |-> t, obj |-> NoObj]
Empty == Text("")
Bin(t) == [fmt |-> "bin", txt |-> t, obj |-> NoObj]
Json(style, o) == [fmt |-> "json", txt |-> style, obj |-> o]

\* A document that parses as JSON and is no object: "null" or a number
JsonValue(v) == [fmt |-> "jsonv", txt |-> v, obj |-> NoObj]

\* Buffer.length; only "is it zero" and "is it below the minimum" matter.
byteLength(c) == IF c = Empty THEN 0 ELSE IF c.txt = "hi" THEN 2 ELSE 64

\* buffer.toString("utf-8") followed by Buffer.from(s, "utf-8"): bytes that
\* are not valid UTF-8 come back as U+FFFD replacement characters.
toStringUtf8(c) == IF c.fmt = "bin" THEN Text(c.txt \o "~") ELSE c

\* hashContent: SHA-256 of the bytes, taken to be collision free.
hashContent(c) == [sha256 |-> c]

\* The contents and session paths of the scenarios
X == Text("X")
Y == Text("Y")
J1 == Json("compact", [mode |-> <<"s", "x">>, tags |-> <<"a", "t1">>])
J2 == Json("compact", [mode |-> <<"s", "y">>, tags |-> <<"a", "t2">>])

SessionP == <<"p", "/", "s">>
SessionQ == <<"q", "/", "s">>

----------------------------------------------------------------------------
(* crypto/encrypt.ts *)

\* encrypt(data): IV + auth tag + ciphertext of the input's bytes.
encrypt(data) == [enc |-> TRUE, body |-> data, good |-> TRUE]

\* A payload that never went through encrypt.
Raw(c) == [enc |-> FALSE, body |-> c, good |-> FALSE]

payloadLength(p) == IF p.enc THEN IV_LENGTH + AUTH_TAG_LENGTH + byteLength(p.body)
                    ELSE byteLength(p.body)

\* decipher.final() throws unless the tag authenticates the ciphertext.
canDecrypt(p) == p.enc /\ p.good

\* decrypt returns decrypted.toString("utf-8"); the callers turn it back
\* into a Buffer.
decrypt(p) == toStringUtf8(p.body)

\* The first 100 bytes decode as UTF-8 (TextDecoder with fatal: true).
\* AES-GCM output is taken not to decode.
previewDecodes(p) == ~p.enc /\ p.body.fmt # "bin"

\* The plaintext shapes isEncrypted looks for in the preview.
looksStructured(p) == p.body.fmt = "json" \/ (p.body.fmt = "text" /\ p.body.txt \in {"X", "Y", "Z"})

isEncrypted(p) ==
  IF payloadLength(p) < MIN_ENCRYPTED_SIZE THEN FALSE
  ELSE IF ~previewDecodes(p) THEN TRUE
  ELSE ~looksStructured(p)

----------------------------------------------------------------------------
(* resources/handlers/settings.ts: merge *)

isArray(v) == Len(v) > 0 /\ v[1] = "a"

\* settings.ts isObject: <<"o", r>> is a nested object, r a JSON object
isObject(v) == Len(v) > 0 /\ v[1] = "o"

\* An array element is a string or number, written as itself, or an
\* object, written as its JSON text (hooks entries are objects).
ObjectElems == {"{h}", "{g}"}
isPrimitive(e) == e \notin ObjectElems

RECURSIVE dedupe(_)
\* [...new Set(xs)]: first occurrences, in order.  A Set compares with
\* SameValueZero: primitives by value, objects by identity, and no two
\* parsed objects are the same object.
dedupe(xs) == IF xs = <<>> THEN <<>>
              ELSE LET init == dedupe(SubSeq(xs, 1, Len(xs) - 1))
                       last == xs[Len(xs)]
                   IN IF isPrimitive(last) /\ last \in Range(init) THEN init
                      ELSE Append(init, last)

RECURSIVE deepMerge(_, _)
deepMerge(target, source) ==
  [k \in JsonKeys |->
     IF Len(source[k]) = 0 THEN target[k]
     ELSE IF isArray(source[k]) /\ isArray(target[k])
          THEN <<"a">> \o dedupe(Tail(target[k]) \o Tail(source[k]))
     ELSE IF isObject(source[k]) /\ isObject(target[k])
          THEN <<"o", deepMerge(target[k][2], source[k][2])>>
          ELSE source[k]]

\* JSON.parse, with the catch that makes unparseable content {}
parseOrEmpty(c) == IF c.fmt = "json" THEN c.obj ELSE NoObj

merge(local, remoteC) == Json("pretty", deepMerge(parseOrEmpty(remoteC), parseOrEmpty(local)))

\* JSON.parse gave null: not caught, the value goes into deepMerge
parsesToNull(c) == c.fmt = "jsonv" /\ c.txt = "null"

\* merge raises a TypeError: Object.keys(source) with the local value
\* null, or target[key] with the remote value null and a key in local
mergeThrows(local, remoteC) ==
  \/ parsesToNull(local)
  \/ parsesToNull(remoteC) /\ \E k \in JsonKeys : Len(parseOrEmpty(local)[k]) > 0

----------------------------------------------------------------------------
(* Resource handlers *)

\* sessions.ts normalizeSessionId(basename, dirname)
normalizeSessionId(basename, dirname) ==
  IF dirname # <<".">> /\ dirname # <<>>
    THEN dirname \o <<"/">> \o basename
  ELSE IF Has(basename, "_") /\ FirstIdx(basename, "_") > 1
            /\ FirstIdx(basename, "_") < Len(basename)
    THEN [basename EXCEPT ![FirstIdx(basename, "_")] = "/"]
  ELSE <<"unknown", "/">> \o basename

\* sessions.ts parseSessionId(id)
parseSessionId(id) ==
  IF ~Has(id, "/") THEN [project |-> <<"unknown">>, basename |-> id]
  ELSE [project |-> SubSeq(id, 1, FirstIdx(id, "/") - 1),
        basename |-> SubSeq(id, FirstIdx(id, "/") + 1, Len(id))]

\* handler.getLocalPath(id)
getLocalPath(type, id) ==
  CASE type = "sessions" -> parseSessionId(id).project \o <<"/">> \o parseSessionId(id).basename
    [] type = "agents" -> id
    [] OTHER -> SETTINGS_ID

\* sessions.ts getConflictPath(id)
getConflictPath(id) ==
  parseSessionId(id).project \o <<"/">> \o parseSessionId(id).basename \o <<".conflict">>

\* The id findLocal gives the file at path p.
idOfPath(type, p) ==
  IF type = "sessions" THEN normalizeSessionId(basenameOf(p), dirnameOf(p)) ELSE p

\* The files the handler's glob (or stat) finds.
globbed(type, files) ==
  CASE type = "sessions" -> DOMAIN files
    [] type = "agents" -> {p \in DOMAIN files : ~Has(p, "/")}
    [] OTHER -> DOMAIN files \cap {SETTINGS_ID}

\* "Skip empty files": the sessions and agents handlers do, settings does not.
skipsEmpty(type) == type \in {"sessions", "agents"}

\* findLocal(): the items in the order the glob returned the files
findLocal(type, files, order) ==
  LET kept == SelectSeq(order, LAMBDA p : ~(skipsEmpty(type) /\ byteLength(files[p]) = 0))
  IN [i \in 1..Len(kept) |-> [id |-> idOfPath(type, kept[i]), path |-> kept[i]]]

\* Variant: the filter keeps only what was never recorded.
unrecordedOnly(type, files, order, state) ==
  SelectSeq(findLocal(type, files, order),
            LAMBDA item : item.id \notin DOMAIN state[type])

\* findLocal({ modifiedSinceLastSync: true })
findLocalModified(type, files, order, state) ==
  SelectSeq(findLocal(type, files, order),
            LAMBDA item : item.id \notin DOMAIN state[type]
                          \/ hashContent(files[item.path]) # state[type][item.id])

----------------------------------------------------------------------------
(* Backends *)

\* git.ts getResourcePath / s3.ts getResourceKey: the object's name within
\* the type's storage prefix, without ".enc"
getResourceKey(id) == ReplaceAll(id, "/", "_")

\* git.ts / s3.ts parseResourceId
parseResourceId(key) == ReplaceAll(key, "_", "/")

----------------------------------------------------------------------------
(* utils/syncState.ts *)

RECURSIVE applyUpdates(_, _)
\* the loop of updateResourceHashBatch over updates [id, hash] of one type
applyUpdates(recs, updates) ==
  IF updates = <<>> THEN recs
  ELSE applyUpdates(Put(recs, Head(updates).id, Head(updates).hash), Tail(updates))

\* Variant: the batch persists a state that holds its own updates only.
updatesAlone(state, type, updates) ==
  [t \in DOMAIN state |-> IF t = type THEN applyUpdates(EmptyMap, updates) ELSE EmptyMap]

\* updateResourceHashBatch(updates), all of one type
updateResourceHashBatch(state, type, updates) ==
  [state EXCEPT ![type] = applyUpdates(state[type], updates)]

----------------------------------------------------------------------------
(* The state of a command *)

NoOpts == [cmd |-> "none", type |-> "none", session |-> <<>>, file |-> <<>>,
           all |-> FALSE, dryRun |-> FALSE, force |-> FALSE]

NoCounts == [pulled |-> 0, failed |-> 0, keptLocal |-> 0, keptRemote |-> 0,
             keptBoth |-> 0, resolvedConflicts |-> 0, pushed |-> 0,
             encryptFailed |-> 0]

\* What a command did: the prompts shown, the remote ids detectConflict
\* compared, the ids fetched with backend.pullResource, the ids given to
\* handler.write, the local paths written, how each conflict was resolved,
\* what the backend's push calls were given and reported, the type's local
\* files when the command came to the type, and the ids whose I/O failed.
NoTrace == [prompts |-> 0, compared |-> {}, fetched |-> {}, written |-> {},
            paths |-> {}, resolved |-> EmptyMap, matched |-> EmptyMap,
            type |-> "none", conflictsSeen |-> <<>>,
            given |-> {}, reported |-> {}, threw |-> FALSE, read |-> EmptyMap,
            before |-> EmptyMap, ioFailed |-> {},
            itemFailed |-> {}]

NoItem == [id |-> <<>>, path |-> <<>>]

\* typesToPull / typesToPush
typesOf(o) == IF o.type # "none" THEN <<o.type>>
              ELSE IF o.all THEN ALL_RESOURCE_TYPES ELSE <<"sessions">>

curType == Head(typesLeft)

ResetLocals ==
  /\ remoteResources' = <<>>
  /\ conflicts' = <<>>
  /\ cidx' = 1
  /\ toPull' = <<>>
  /\ pidx' = 1
  /\ hashUpdates' = <<>>
  /\ counts' = NoCounts
  /\ resources' = <<>>
  /\ encryptedResources' = <<>>
  /\ eidx' = 1

KeepLocals == UNCHANGED <<remoteResources, conflicts, cidx, toPull, pidx,
                          hashUpdates, counts, resources, encryptedResources, eidx>>

\* The store's file and callers and the function applications, untouched
KeepAux == UNCHANGED <<stateFile, updaters, input, output>>

KeepConfig == UNCHANGED <<initialized, backendKind, opsDone, editsDone>> /\ KeepAux

\* process.exit(code), or the command returning (code 0)
Exit(code) == pc' = "done" /\ exitCode' = code /\ typesLeft' = <<>>

\* The loop over the types moves on: the next type, or the command returns.
NextType(nextPc) ==
  IF Len(typesLeft) > 1
    THEN pc' = nextPc /\ typesLeft' = Tail(typesLeft) /\ exitCode' = exitCode
    ELSE Exit(0)

----------------------------------------------------------------------------
(* commands/pull.ts *)

\* Map.get after Map.set over the items: of the items at idxs, the last
lastOf(items, idxs) ==
  IF idxs = {} THEN NoItem
  ELSE items[CHOOSE i \in idxs : \A j \in idxs : j <= i]

\* findLocalResource(remoteId) over localById and localByBasename
findLocalResource(items, remoteId) ==
  LET exact == lastOf(items, {i \in 1..Len(items) : items[i].id = remoteId})
  IN IF exact # NoItem THEN exact
     ELSE lastOf(items, {i \in 1..Len(items) :
                           basenameOf(items[i].id) = basenameOf(remoteId)})

\* Variant: existence-based detection.
existenceBased(localContent, payload) == TRUE

\* detectConflict once the local read, the remote fetch and the decrypt
\* have succeeded
hashesDiffer(localContent, payload) ==
  hashContent(localContent) # hashContent(decrypt(payload))

\* Variant: a comparison that cannot be completed counts as a conflict.
conflictOnFailure(localContent, payload, failed) ==
  IF failed \/ ~canDecrypt(payload) THEN TRUE
  ELSE hashesDiffer(localContent, payload)

\* detectConflict(type, remote, local): failed is the outcome of the I/O
detectConflict(localContent, payload, failed) ==
  IF failed \/ ~canDecrypt(payload) THEN FALSE
  ELSE hashesDiffer(localContent, payload)

\* Variant: default mode pulls every remote id.
allRemote(remoteIds, items) == remoteIds

\* The remote ids default mode pulls
newOnly(remoteIds, items) ==
  SelectSeq(remoteIds, LAMBDA r : findLocalResource(items, r) = NoItem)

\* Variant: the conflict copy goes to the canonical location.
canonicalPathOf(type, conflict) == conflict.localPath

\* The location pullAsConflict writes to
conflictPathOf(type, conflict) ==
  IF type = "sessions" THEN getConflictPath(conflict.id)
  ELSE conflict.localPath \o <<".conflict">>

\* handler.merge raises inside the pull loop's try
writeThrows(type, files, payload) ==
  /\ strategy(type) = "merge" /\ globbed(type, files) # {}
  /\ canDecrypt(payload)
  /\ mergeThrows(files[SETTINGS_ID], decrypt(payload))

\* Variant: the decrypted remote payload is written as it is.
remoteVerbatim(type, files, payload) == decrypt(payload)

\* What the pull loop writes for a fetched payload
contentToWrite(type, files, payload) ==
  IF strategy(type) = "merge" /\ globbed(type, files) # {}
    THEN merge(files[SETTINGS_ID], decrypt(payload))
    ELSE decrypt(payload)

\* Variant: the hash of the decrypted remote payload, whatever is written.
hashOfRemote(type, files, payload) == hashContent(decrypt(payload))

\* The hash the pull loop pushes onto hashUpdates: hashContent(merged) or
\* hashContent(decryptedBuffer), the buffer given to handler.write
hashToRecord(type, files, payload) == hashContent(contentToWrite(type, files, payload))

\* Variant: every answer adds the id to the pull list.
alwaysPulled(pulls, id, resolution) == Append(pulls, id)

\* The pull list after one answer of the prompt
resolvedPulls(pulls, id, resolution) ==
  IF resolution = "remote" THEN Append(pulls, id) ELSE pulls

\* Variant: force drops the conflicts.
forcedNone(cs) == <<>>

\* force: every conflict's remote resource joins the pull list
forcedPulls(cs) == [i \in 1..Len(cs) |-> cs[i].id]

\* Variant: only push checks the configuration.
preconditionFailsPushOnly(o) == o.cmd = "push" /\ ~o.dryRun /\ ~initialized

\* push.ts 43 and pull.ts 59: loadConfig() gave nothing or a configuration
\* that is not initialized; a dry-run push skips the test.
preconditionFails(o) ==
  IF o.cmd = "push" THEN ~o.dryRun /\ ~initialized ELSE ~initialized

PullOptions ==
  {[cmd |-> "pull", type |-> t, session |-> <<>>, file |-> <<>>, all |-> a,
    dryRun |-> d, force |-> f] :
     t \in {"none"} \cup ResourceTypes, a \in BOOLEAN, d \in BOOLEAN, f \in BOOLEAN}
  \cup
  {[cmd |-> "pull", type |-> t, session |-> <<"p", "/", "s">>, file |-> <<>>,
    all |-> FALSE, dryRun |-> d, force |-> FALSE] :
     t \in {"none", "agents"}, d \in BOOLEAN}

\* pull(options) up to the dispatch
PullStart(o) ==
  /\ pc = "idle"
  /\ KeepAux
  /\ opsDone' = opsDone + 1
  /\ opts' = o
  /\ trace' = NoTrace
  /\ ResetLocals
  /\ UNCHANGED <<initialized, backendKind, editsDone, localFiles, remote, syncState,
                 transferred>>
  /\ IF preconditionFails(o) THEN Exit(1)
     ELSE IF o.session # <<>>
       THEN IF o.type \notin {"none", "sessions"} THEN Exit(1)
            ELSE pc' = "pull_session" /\ exitCode' = 0 /\ typesLeft' = <<"sessions">>
     ELSE pc' = "pull_type" /\ exitCode' = 0 /\ typesLeft' = typesOf(o)

\* pullSpecificSession(sessionId, backend, dryRun)
PullSpecificSession(ioFail) ==
  /\ pc = "pull_session"
  /\ KeepConfig /\ KeepLocals /\ UNCHANGED <<opts, remote>>
  /\ LET id == opts.session
         key == getResourceKey(id)
         listed == {parseResourceId(k) : k \in DOMAIN remote["sessions"]}
     IN IF ioFail /\ backendKind = "s3"
          THEN Exit(1) /\ UNCHANGED <<localFiles, syncState, trace, transferred>>
        ELSE IF id \notin listed \/ opts.dryRun
          THEN Exit(0) /\ UNCHANGED <<localFiles, syncState, trace, transferred>>
        ELSE IF ioFail \/ key \notin DOMAIN remote["sessions"]
                  \/ ~canDecrypt(remote["sessions"][key])
          THEN /\ Exit(1)
               /\ trace' = [trace EXCEPT !.type = "sessions", !.fetched = {id}]
               /\ UNCHANGED <<localFiles, syncState, transferred>>
        ELSE LET c == decrypt(remote["sessions"][key])
                 path == getLocalPath("sessions", id)
             IN /\ localFiles' = [localFiles EXCEPT !["sessions"] = Put(@, path, c)]
                /\ syncState' = updateResourceHashBatch(syncState, "sessions",
                                   <<[id |-> id, hash |-> hashContent(c)]>>)
                /\ transferred' = [transferred EXCEPT !["sessions"] =
                                      Put(@, id, hashContent(c))]
                /\ trace' = [trace EXCEPT !.type = "sessions", !.fetched = {id},
                                          !.written = {id}, !.paths = {path}]
                /\ Exit(0)

\* pullResourceType: the remote listing, the local inventory and the
\* classification of the remote resources
PullClassify(listFail, rorder, lorder, cmpFail) ==
  /\ pc = "pull_type"
  /\ KeepConfig /\ UNCHANGED <<opts, localFiles, remote, syncState>>
  /\ cidx' = 1 /\ pidx' = 1 /\ hashUpdates' = <<>> /\ counts' = NoCounts
  /\ UNCHANGED <<resources, encryptedResources, eidx, transferred>>
  /\ LET type == curType
         files == localFiles[type]
         \* s3 lets a failed listing throw; git catches it and returns []
         ids == IF listFail THEN <<>>
                ELSE [i \in 1..Len(rorder) |-> parseResourceId(rorder[i])]
         items == findLocal(type, files, lorder)
         isMatched(r) == findLocalResource(items, r) # NoItem
         matchedIds == {r \in Range(ids) : isMatched(r)}
         payloadOf(r) == remote[type][getResourceKey(r)]
         conflicted(r) ==
           /\ isMatched(r)
           /\ detectConflict(files[findLocalResource(items, r).path],
                             payloadOf(r), r \in cmpFail)
         cs == SelectSeq(ids, conflicted)
         tr == [NoTrace EXCEPT !.type = type, !.before = files]
     IN IF listFail /\ backendKind = "s3"
          THEN /\ Exit(1)
               /\ trace' = tr
               /\ UNCHANGED <<remoteResources, conflicts, toPull>>
        ELSE IF Len(ids) = 0
          THEN /\ NextType("pull_type")
               /\ trace' = tr
               /\ remoteResources' = <<>> /\ conflicts' = <<>> /\ toPull' = <<>>
        ELSE /\ remoteResources' = ids
             /\ IF opts.all
                  THEN /\ conflicts' = [i \in 1..Len(cs) |->
                            [id |-> cs[i], localPath |-> findLocalResource(items, cs[i]).path]]
                       /\ toPull' = SelectSeq(ids, LAMBDA r : ~isMatched(r))
                       /\ trace' = [tr EXCEPT !.compared = matchedIds,
                                      !.fetched = matchedIds \ cmpFail,
                                      !.conflictsSeen = cs,
                                      !.matched = [r \in matchedIds |-> findLocalResource(items, r).path]]
                  ELSE /\ conflicts' = <<>>
                       /\ toPull' = newOnly(ids, items)
                       /\ trace' = [tr EXCEPT
                                      !.matched = [r \in matchedIds |-> findLocalResource(items, r).path]]
             /\ IF opts.dryRun THEN NextType("pull_type")
                ELSE pc' = "pull_conflicts" /\ UNCHANGED <<typesLeft, exitCode>>

\* pullResourceType: one pass of the prompt loop (or the force branch)
PullResolve(resolution, ioFail) ==
  /\ pc = "pull_conflicts"
  /\ KeepConfig /\ UNCHANGED <<opts, remote, syncState, remoteResources, conflicts>>
  /\ UNCHANGED <<pidx, hashUpdates, resources, encryptedResources, eidx, transferred>>
  /\ LET type == curType IN
     IF cidx > Len(conflicts)
       THEN /\ pc' = "pull_items"
            /\ UNCHANGED <<typesLeft, exitCode, cidx, toPull, counts, trace, localFiles>>
     ELSE IF opts.force
       THEN /\ toPull' = toPull \o forcedPulls(conflicts)
            /\ counts' = [counts EXCEPT !.keptRemote = @ + Len(conflicts)]
            /\ cidx' = Len(conflicts) + 1
            /\ trace' = [trace EXCEPT !.resolved =
                           [c \in Range(forcedPulls(conflicts)) |-> "remote"]]
            /\ pc' = "pull_items"
            /\ UNCHANGED <<typesLeft, exitCode, localFiles>>
     ELSE LET c == conflicts[cidx]
              payload == remote[type][getResourceKey(c.id)]
              tr == [trace EXCEPT !.prompts = @ + 1,
                                  !.resolved = Put(@, c.id, resolution)]
          IN CASE resolution = "local" ->
                    /\ counts' = [counts EXCEPT !.resolvedConflicts = @ + 1, !.keptLocal = @ + 1]
                    /\ toPull' = resolvedPulls(toPull, c.id, resolution)
                    /\ cidx' = cidx + 1
                    /\ trace' = tr
                    /\ UNCHANGED <<pc, typesLeft, exitCode, localFiles>>
               [] resolution = "remote" ->
                    /\ counts' = [counts EXCEPT !.resolvedConflicts = @ + 1, !.keptRemote = @ + 1]
                    /\ toPull' = resolvedPulls(toPull, c.id, resolution)
                    /\ cidx' = cidx + 1
                    /\ trace' = tr
                    /\ UNCHANGED <<pc, typesLeft, exitCode, localFiles>>
               [] OTHER ->
                    /\ counts' = [counts EXCEPT !.resolvedConflicts = @ + 1, !.keptBoth = @ + 1]
                    /\ cidx' = cidx + 1
                    /\ toPull' = resolvedPulls(toPull, c.id, resolution)
                    /\ IF ioFail \/ ~canDecrypt(payload)
                         THEN /\ Exit(1) /\ UNCHANGED localFiles
                              /\ trace' = [tr EXCEPT !.fetched = @ \cup {c.id},
                                              !.itemFailed = @ \cup {c.id}]
                         ELSE /\ localFiles' = [localFiles EXCEPT ![type] =
                                    Put(@, conflictPathOf(type, c), decrypt(payload))]
                              /\ trace' = [tr EXCEPT !.fetched = @ \cup {c.id}]
                              /\ UNCHANGED <<pc, typesLeft, exitCode>>

\* pullResourceType: one pass of the loop over toPull
PullItem(ioFail) ==
  /\ pc = "pull_items"
  /\ KeepConfig /\ UNCHANGED <<opts, remote, syncState, remoteResources, conflicts, cidx, toPull>>
  /\ UNCHANGED <<resources, encryptedResources, eidx>>
  /\ LET type == curType IN
     IF Len(toPull) = 0
       THEN /\ NextType("pull_type")
            /\ UNCHANGED <<pidx, hashUpdates, counts, trace, localFiles, transferred>>
     ELSE IF pidx > Len(toPull)
       THEN /\ pc' = "pull_save"
            /\ UNCHANGED <<typesLeft, exitCode, pidx, hashUpdates, counts, trace,
                           localFiles, transferred>>
     ELSE LET id == toPull[pidx]
              payload == remote[type][getResourceKey(id)]
          IN /\ pidx' = pidx + 1
             /\ UNCHANGED <<pc, typesLeft, exitCode>>
             /\ IF ioFail \/ ~canDecrypt(payload) \/ writeThrows(type, localFiles[type], payload)
                  THEN /\ counts' = [counts EXCEPT !.failed = @ + 1]
                       /\ trace' = [trace EXCEPT !.fetched = @ \cup {id},
                                       !.itemFailed = @ \cup {id}]
                       /\ UNCHANGED <<hashUpdates, localFiles, transferred>>
                  ELSE LET c == contentToWrite(type, localFiles[type], payload)
                       IN /\ transferred' = [transferred EXCEPT ![type] =
                                               Put(@, id, hashContent(c))]
                          /\ localFiles' = [localFiles EXCEPT ![type] =
                                              Put(@, getLocalPath(type, id), c)]
                          /\ hashUpdates' = Append(hashUpdates,
                                [id |-> id, hash |-> hashToRecord(type, localFiles[type], payload)])
                          /\ counts' = [counts EXCEPT !.pulled = @ + 1]
                          /\ trace' = [trace EXCEPT !.fetched = @ \cup {id},
                                          !.written = @ \cup {id},
                                          !.paths = @ \cup {getLocalPath(type, id)}]

\* pullResourceType: the sync state update and the summary
PullSave(saveFail) ==
  /\ pc = "pull_save"
  /\ KeepConfig /\ KeepLocals /\ UNCHANGED <<opts, remote, localFiles, trace, transferred>>
  /\ IF Len(hashUpdates) = 0
       THEN NextType("pull_type") /\ UNCHANGED syncState
     ELSE IF saveFail
       THEN Exit(1) /\ UNCHANGED syncState
     ELSE /\ syncState' = updateResourceHashBatch(syncState, curType, hashUpdates)
          /\ NextType("pull_type")

----------------------------------------------------------------------------
(* backends/git.ts, backends/s3.ts: the push operations *)

\* Variant: no gate.
passesGateAlways(data) == TRUE

\* assertEncrypted(data) passes
passesGate(data) == isEncrypted(data)

\* pushResource(type, id, data) on the objects of one type.  io is the
\* outcome of the I/O: "ok", "write" (the file write or the PutObject
\* fails) or "transport" (git add/commit/push fails after the file is
\* written into the clone).
pushResource(kind, objs, id, data, io) ==
  IF ~passesGate(data) THEN [objs |-> objs, threw |-> TRUE]
  ELSE IF io = "write" \/ (io = "transport" /\ kind = "s3")
    THEN [objs |-> objs, threw |-> TRUE]
  ELSE [objs |-> Put(objs, getResourceKey(id), data), threw |-> io = "transport"]

\* One item of pushResourceBatch is written (its promise is fulfilled).
batchItemOk(item, failIds) == passesGate(item.data) /\ item.id \notin failIds

RECURSIVE writeAll(_, _, _)
writeAll(objs, items, failIds) ==
  IF items = <<>> THEN objs
  ELSE writeAll(IF batchItemOk(Head(items), failIds)
                  THEN Put(objs, getResourceKey(Head(items).id), Head(items).data)
                  ELSE objs,
                Tail(items), failIds)

\* pushResourceBatch(type, resources): failIds are the items whose write
\* fails, transportFail the outcome of git's add/commit/push.
pushResourceBatch(kind, objs, items, failIds, transportFail) ==
  LET ok == {i \in 1..Len(items) : batchItemOk(items[i], failIds)}
  IN [objs |-> writeAll(objs, items, failIds),
      pushed |-> Cardinality(ok),
      failed |-> Len(items) - Cardinality(ok),
      okIds |-> {items[i].id : i \in ok},
      threw |-> kind = "git" /\ transportFail]

----------------------------------------------------------------------------
(* commands/push.ts *)

\* Variant: a record for every item handed to the backend.
pushHashUpdatesOfGiven(given, okIds) ==
  [i \in 1..Len(given) |-> [id |-> given[i].id, hash |-> hashContent(given[i].data.body)]]

\* The sync state records push writes once the backend has been given
\* the items and has reported okIds as pushed: none, the command calls
\* neither updateResourceHash nor updateResourceHashBatch.
pushHashUpdates(given, okIds) == <<>>

PushOptions ==
  {[cmd |-> "push", type |-> t, session |-> <<>>, file |-> <<>>, all |-> a,
    dryRun |-> d, force |-> FALSE] :
     t \in {"none"} \cup ResourceTypes, a \in BOOLEAN, d \in BOOLEAN}
  \cup
  {[cmd |-> "push", type |-> t, session |-> sf[1], file |-> sf[2], all |-> FALSE,
    dryRun |-> d, force |-> FALSE] :
     t \in {"none", "agents"}, d \in BOOLEAN,
     sf \in {<<<<"p", "/", "s">>, <<>>>>, <<<<"p", "/", "s">>, <<"p", "/", "s">>>>,
             <<<<>>, <<"q", "/", "s">>>>, <<<<"s">>, <<"p", "/", "s">>>>}}

IoOutcomes == {"ok", "read", "encrypt", "write", "transport"}

\* push(options) up to the dispatch
PushStart(o) ==
  /\ pc = "idle"
  /\ KeepAux
  /\ opsDone' = opsDone + 1
  /\ opts' = o
  /\ trace' = NoTrace
  /\ ResetLocals
  /\ UNCHANGED <<initialized, backendKind, editsDone, localFiles, remote, syncState,
                 transferred>>
  /\ IF preconditionFails(o) THEN Exit(1)
     ELSE IF o.session # <<>> \/ o.file # <<>>
       THEN IF o.type \notin {"none", "sessions"} THEN Exit(1)
            ELSE pc' = "push_session" /\ exitCode' = 0 /\ typesLeft' = <<"sessions">>
     ELSE pc' = "push_type" /\ exitCode' = 0 /\ typesLeft' = typesOf(o)

\* read, encrypt and backend.pushResource of one item, inside try/catch
pushOne(type, item, io) ==
  LET files == localFiles[type]
      readOk == io # "read" /\ item.path \in DOMAIN files
      data == encrypt(toStringUtf8(files[item.path]))
      res == pushResource(backendKind, remote[type], item.id, data, io)
  IN IF ~readOk \/ io = "encrypt"
       THEN /\ UNCHANGED <<remote, syncState, transferred>>
            /\ trace' = [NoTrace EXCEPT !.type = type]
     ELSE /\ remote' = [remote EXCEPT ![type] = res.objs]
          /\ transferred' = IF res.threw THEN transferred
                            ELSE [transferred EXCEPT ![type] =
                                    Put(@, item.id, hashContent(data.body))]
          /\ trace' = [NoTrace EXCEPT !.type = type, !.given = {item.id},
                         !.reported = IF res.threw THEN {} ELSE {item.id},
                         !.threw = res.threw,
                         !.read = [i \in {item.id} |-> files[item.path]]]
          /\ syncState' = updateResourceHashBatch(syncState, type,
                             pushHashUpdates(<<[id |-> item.id, data |-> data]>>,
                                             IF res.threw THEN {} ELSE {item.id}))

\* pushSpecificSession(options, backend)
PushSpecificSession(lorder, io) ==
  /\ pc = "push_session"
  /\ KeepConfig /\ KeepLocals /\ UNCHANGED <<opts, localFiles>>
  /\ LET items == findLocal("sessions", localFiles["sessions"], lorder)
         found == lastOf(items, {i \in 1..Len(items) : items[i].id = opts.session})
         first == CHOOSE i \in 1..Len(items) : items[i].id = opts.session
                     /\ \A j \in 1..(i-1) : items[j].id # opts.session
     IN IF opts.file # <<>>
          THEN LET item == [id |-> IF opts.session # <<>> THEN opts.session ELSE <<"unknown">>,
                            path |-> opts.file]
               IN IF opts.dryRun
                    THEN Exit(0) /\ UNCHANGED <<remote, trace, syncState, transferred>>
                    ELSE Exit(0) /\ pushOne("sessions", item, io)
        ELSE IF found = NoItem
          THEN Exit(1) /\ UNCHANGED <<remote, trace, syncState, transferred>>
        ELSE IF opts.dryRun
          THEN Exit(0) /\ UNCHANGED <<remote, trace, syncState, transferred>>
        ELSE Exit(0) /\ pushOne("sessions", items[first], io)

\* pushResourceType: the candidates, the dry run and the single-item push
PushType(lorder, io) ==
  /\ pc = "push_type"
  /\ KeepConfig /\ UNCHANGED <<opts, localFiles>>
  /\ UNCHANGED <<remoteResources, conflicts, cidx, toPull, pidx, hashUpdates>>
  /\ LET type == curType
         files == localFiles[type]
         found == IF opts.all THEN findLocal(type, files, lorder)
                  ELSE findLocalModified(type, files, lorder, syncState)
     IN /\ resources' = found
        /\ encryptedResources' = <<>>
        /\ eidx' = 1
        /\ counts' = NoCounts
        /\ IF Len(found) = 0 \/ opts.dryRun
             THEN /\ NextType("push_type")
                  /\ trace' = [NoTrace EXCEPT !.type = type]
                  /\ UNCHANGED <<remote, syncState, transferred>>
           ELSE IF Len(found) = 1
             THEN NextType("push_type") /\ pushOne(type, found[1], io)
           ELSE /\ pc' = "push_encrypt"
                /\ trace' = [NoTrace EXCEPT !.type = type]
                /\ UNCHANGED <<typesLeft, exitCode, remote, syncState, transferred>>

\* pushResourceType: one batch of the read-and-encrypt loop
PushEncrypt(failIds) ==
  /\ pc = "push_encrypt"
  /\ KeepConfig /\ UNCHANGED <<opts, localFiles, remote, syncState>>
  /\ UNCHANGED <<remoteResources, conflicts, cidx, toPull, pidx, hashUpdates, resources>>
  /\ UNCHANGED <<typesLeft, exitCode, transferred>>
  /\ LET type == curType
         files == localFiles[type]
         last == IF eidx + ENCRYPT_BATCH_SIZE - 1 < Len(resources)
                   THEN eidx + ENCRYPT_BATCH_SIZE - 1 ELSE Len(resources)
         batch == SubSeq(resources, eidx, last)
         ok == SelectSeq(batch, LAMBDA it : it.id \notin failIds)
     IN /\ encryptedResources' = encryptedResources \o
             [i \in 1..Len(ok) |-> [id |-> ok[i].id,
                                    data |-> encrypt(toStringUtf8(files[ok[i].path]))]]
        /\ counts' = [counts EXCEPT !.encryptFailed = @ + Len(batch) - Len(ok)]
        /\ eidx' = eidx + ENCRYPT_BATCH_SIZE
        /\ trace' = [trace EXCEPT !.read =
                        [i \in DOMAIN @ \cup {it.id : it \in Range(ok)} |->
                            IF i \in DOMAIN @ THEN @[i]
                            ELSE files[(CHOOSE it \in Range(ok) : it.id = i).path]]]
        /\ pc' = IF last = Len(resources) THEN "push_upload" ELSE "push_encrypt"

\* pushResourceType: backend.pushResourceBatch and the summary
PushUpload(failIds, transportFail) ==
  /\ pc = "push_upload"
  /\ KeepConfig /\ UNCHANGED <<opts, localFiles>>
  /\ UNCHANGED <<remoteResources, conflicts, cidx, toPull, pidx, hashUpdates,
                 resources, encryptedResources, eidx>>
  /\ LET type == curType
         res == pushResourceBatch(backendKind, remote[type], encryptedResources,
                                  failIds, transportFail)
         okItems == SelectSeq(encryptedResources, LAMBDA it : it.id \in res.okIds)
     IN /\ remote' = [remote EXCEPT ![type] = res.objs]
        /\ trace' = [trace EXCEPT !.given = {it.id : it \in Range(encryptedResources)},
                        !.reported = IF res.threw THEN {} ELSE res.okIds,
                        !.threw = res.threw, !.ioFailed = failIds]
        /\ IF res.threw
             THEN Exit(1) /\ UNCHANGED <<counts, syncState, transferred>>
             ELSE /\ transferred' = [transferred EXCEPT ![type] =
                                       applyUpdates(@, [i \in 1..Len(okItems) |->
                                          [id |-> okItems[i].id,
                                           hash |-> hashContent(okItems[i].data.body)]])]
                  /\ counts' = [counts EXCEPT !.pushed = res.pushed,
                                   !.failed = res.failed + counts.encryptFailed]
                  /\ syncState' = updateResourceHashBatch(syncState, type,
                                     pushHashUpdates(encryptedResources, res.okIds))
                  /\ NextType("push_type")

----------------------------------------------------------------------------
(* A backend called directly, with any payload *)

\* Backend calls in one behaviour.
MaxCalls == 2

AgentA == <<"a">>
AgentB == <<"b">>

\* Ciphertext, ciphertext of the empty string, a plaintext document and
\* raw bytes that are not valid UTF-8.
Payloads == {encrypt(X), encrypt(Empty), Raw(J1), Raw(Bin("B"))}

ItemLists ==
  {<<[id |-> AgentA, data |-> d]>> : d \in Payloads}
  \cup {<<[id |-> AgentA, data |-> d], [id |-> AgentB, data |-> e]>> :
          d \in Payloads, e \in Payloads}

\* backend.pushResource(type, id, data)
BackendPushOne(type, id, data, io) ==
  /\ pc = "idle"
  /\ KeepAux
  /\ opsDone < MaxCalls
  /\ opsDone' = opsDone + 1
  /\ LET res == pushResource(backendKind, remote[type], id, data, io)
     IN /\ remote' = [remote EXCEPT ![type] = res.objs]
        /\ trace' = [NoTrace EXCEPT !.type = type, !.given = {id},
                       !.reported = IF res.threw THEN {} ELSE {id},
                       !.threw = res.threw,
                       !.ioFailed = IF io = "ok" THEN {} ELSE {id}]
  /\ opts' = [NoOpts EXCEPT !.cmd = "pushResource"]
  /\ encryptedResources' = <<[id |-> id, data |-> data]>>
  /\ counts' = NoCounts
  /\ UNCHANGED <<initialized, backendKind, localFiles, syncState, pc, typesLeft,
                 remoteResources, conflicts, cidx, toPull, pidx, hashUpdates,
                 resources, eidx, exitCode, editsDone, transferred>>

\* backend.pushResourceBatch(type, resources)
BackendPushMany(type, items, failIds, transportFail) ==
  /\ pc = "idle"
  /\ KeepAux
  /\ opsDone < MaxCalls
  /\ opsDone' = opsDone + 1
  /\ LET res == pushResourceBatch(backendKind, remote[type], items, failIds,
                                  transportFail)
     IN /\ remote' = [remote EXCEPT ![type] = res.objs]
        /\ trace' = [NoTrace EXCEPT !.type = type,
                       !.given = {it.id : it \in Range(items)},
                       !.reported = IF res.threw THEN {} ELSE res.okIds,
                       !.threw = res.threw, !.ioFailed = failIds]
        /\ counts' = [NoCounts EXCEPT !.pushed = res.pushed, !.failed = res.failed]
  /\ opts' = [NoOpts EXCEPT !.cmd = "pushResourceBatch"]
  /\ encryptedResources' = items
  /\ UNCHANGED <<initialized, backendKind, localFiles, syncState, pc, typesLeft,
                 remoteResources, conflicts, cidx, toPull, pidx, hashUpdates,
                 resources, eidx, exitCode, editsDone, transferred>>

----------------------------------------------------------------------------
(* The environment *)

\* The command has ended: its process is gone.
Finish ==
  /\ pc = "done"
  /\ KeepAux
  /\ pc' = "idle"
  /\ opts' = NoOpts
  /\ trace' = NoTrace
  /\ exitCode' = 0
  /\ ResetLocals
  /\ UNCHANGED <<initialized, backendKind, opsDone, editsDone, localFiles,
                 remote, syncState, typesLeft, transferred>>

\* What the user may write into a local file
EditChoices ==
  {<<"sessions", SessionP, Y>>, <<"sessions", SessionP, Empty>>,
   <<"sessions", <<"p", "_", "s">>, Y>>,
   <<"agents", <<"b", "_", "c">>, Bin("B")>>,
   <<"settings", SETTINGS_ID, Empty>>}

\* The user edits (or creates) a local file before a command.
LocalEdit(e) ==
  /\ pc = "idle"
  /\ editsDone < MaxEdits
  /\ KeepAux
  /\ editsDone' = editsDone + 1
  /\ localFiles' = [localFiles EXCEPT ![e[1]] = Put(@, e[2], e[3])]
  /\ UNCHANGED <<initialized, backendKind, opsDone, remote, syncState, pc, opts,
                 typesLeft, exitCode, trace, transferred>>
  /\ KeepLocals

NoFiles == [sessions |-> EmptyMap, agents |-> EmptyMap, settings |-> EmptyMap]

\* One machine's files
LocalOne ==
  [sessions |-> [q \in {SessionP} |-> X],
   agents |-> [q \in {<<"a">>} |-> Text("hi")],
   settings |-> [q \in {SETTINGS_ID} |-> J1]]

LocalTwo ==
  [sessions |-> [q \in {SessionP, SessionQ} |-> IF q = SessionP THEN X ELSE Y],
   agents |-> [q \in {<<"a">>, <<"b", "_", "c">>} |-> X],
   settings |-> [q \in {SETTINGS_ID} |-> J1]]

\* What other machines have pushed
RemoteOne ==
  [sessions |-> [k \in {<<"p", "_", "s">>, <<"q", "_", "s">>} |-> encrypt(Y)],
   agents |-> [k \in {<<"a">>} |-> encrypt(Text("hi"))],
   settings |-> [k \in {SETTINGS_ID} |-> encrypt(J2)]]

RemoteTwo ==
  [sessions |-> [k \in {<<"p", "_", "s">>, <<"q", "_", "s">>} |-> encrypt(X)],
   agents |-> [k \in {<<"a">>, <<"d">>} |-> encrypt(Y)],
   settings |-> [k \in {SETTINGS_ID} |-> encrypt(J1)]]

\* A legacy flat session key and an object that does not decrypt
RemoteOld ==
  [sessions |-> [k \in {<<"s">>, <<"r", "_", "t">>} |->
                   IF k = <<"s">> THEN encrypt(Y) ELSE [encrypt(X) EXCEPT !.good = FALSE]],
   agents |-> EmptyMap,
   settings |-> EmptyMap]

\* No store call in flight and no function applied
AuxIdle ==
  /\ stateFile = [kind |-> "missing"]
  /\ updaters = <<>>
  /\ input = <<>>
  /\ output = <<>>

Scenarios ==
  {<<TRUE, LocalOne, NoFiles>>, <<TRUE, NoFiles, RemoteOne>>,
   <<TRUE, LocalOne, RemoteOne>>, <<TRUE, LocalTwo, RemoteTwo>>,
   <<TRUE, LocalOne, RemoteOld>>, <<FALSE, LocalOne, RemoteOne>>}

Init ==
  /\ backendKind \in {"git", "s3"}
  /\ \E sc \in Scenarios :
       initialized = sc[1] /\ localFiles = sc[2] /\ remote = sc[3]
  /\ syncState = [t \in ResourceTypes |-> EmptyMap]
  /\ pc = "idle"
  /\ opts = NoOpts
  /\ typesLeft = <<>>
  /\ remoteResources = <<>>
  /\ conflicts = <<>>
  /\ cidx = 1
  /\ toPull = <<>>
  /\ pidx = 1
  /\ hashUpdates = <<>>
  /\ counts = NoCounts
  /\ resources = <<>>
  /\ encryptedResources = <<>>
  /\ eidx = 1
  /\ exitCode = 0
  /\ trace = NoTrace
  /\ opsDone = 0
  /\ editsDone = 0
  /\ transferred = [t \in ResourceTypes |-> EmptyMap]
  /\ AuxIdle

Next ==
  \/ opsDone < MaxOps /\ \E o \in PullOptions : PullStart(o)
  \/ \E f \in BOOLEAN : PullSpecificSession(f)
  \/ pc = "pull_type" /\ \E lf \in BOOLEAN, ro \in Perms(DOMAIN remote[curType]),
        lo \in Perms(globbed(curType, localFiles[curType])),
        cf \in SUBSET {parseResourceId(k) : k \in DOMAIN remote[curType]} :
        PullClassify(lf, ro, lo, cf)
  \/ \E r \in {"local", "remote", "both"}, f \in BOOLEAN : PullResolve(r, f)
  \/ \E f \in BOOLEAN : PullItem(f)
  \/ \E f \in BOOLEAN : PullSave(f)
  \/ opsDone < MaxOps /\ \E o \in PushOptions : PushStart(o)
  \/ \E lo \in Perms(globbed("sessions", localFiles["sessions"])), io \in IoOutcomes :
        PushSpecificSession(lo, io)
  \/ pc = "push_type" /\ \E lo \in Perms(globbed(curType, localFiles[curType])),
        io \in IoOutcomes : PushType(lo, io)
  \/ \E fs \in SUBSET {it.id : it \in Range(resources)} : PushEncrypt(fs)
  \/ \E fs \in SUBSET {it.id : it \in Range(encryptedResources)}, tf \in BOOLEAN :
        PushUpload(fs, tf)
  \/ opsDone < MaxOps /\ \E e \in EditChoices : LocalEdit(e)
  \/ Finish

Spec == Init /\ [][Next]_vars

\* The backend driven directly
InitBackend ==
  /\ backendKind \in {"git", "s3"}
  /\ initialized = TRUE
  /\ localFiles = NoFiles
  /\ remote \in {NoFiles, RemoteTwo}
  /\ syncState = [t \in ResourceTypes |-> EmptyMap]
  /\ pc = "idle"
  /\ opts = NoOpts
  /\ typesLeft = <<>>
  /\ remoteResources = <<>>
  /\ conflicts = <<>>
  /\ cidx = 1
  /\ toPull = <<>>
  /\ pidx = 1
  /\ hashUpdates = <<>>
  /\ counts = NoCounts
  /\ resources = <<>>
  /\ encryptedResources = <<>>
  /\ eidx = 1
  /\ exitCode = 0
  /\ trace = NoTrace
  /\ opsDone = 0
  /\ editsDone = 0
  /\ transferred = [t \in ResourceTypes |-> EmptyMap]
  /\ AuxIdle

NextBackend ==
  \/ \E d \in Payloads, io \in {"ok", "write", "transport"} :
        BackendPushOne("agents", AgentA, d, io)
  \/ \E items \in ItemLists : \E fs \in SUBSET {it.id : it \in Range(items)},
        tf \in BOOLEAN :
        BackendPushMany("agents", items, fs, tf)

SpecBackend == InitBackend /\ [][NextBackend]_vars

----------------------------------------------------------------------------
(* Properties *)

Pulling == opts.cmd = "pull"
Pushing == opts.cmd = "push"

\* The payload the backend holds for a remote id of the current type
payloadOf(id) == remote[trace.type][getResourceKey(id)]

\* The prompt for the conflict at cidx was answered with resolution r in
\* this step.
Answered(r) ==
  /\ Pulling /\ pc = "pull_conflicts" /\ cidx <= Len(conflicts)
  /\ trace'.prompts = trace.prompts + 1
  /\ trace'.resolved[conflicts[cidx].id] = r

\* Where a keep-both copy belongs: the handler's conflict path when it has
\* one, else the local path with a .conflict marker.
ConflictLocation(type, c) ==
  IF type = "sessions" THEN getConflictPath(c.id) ELSE c.localPath \o <<".conflict">>

\* C1: once a command has ended normally, a sync record exists for
\* (type, id) exactly when the resource has been transferred (pushed or
\* pulled) at least once, and its hash is that of the latest transfer.
C1_RecordIffTransferred ==
  (pc = "done" /\ exitCode = 0) =>
    \A t \in ResourceTypes :
      /\ DOMAIN syncState[t] = DOMAIN transferred[t]
      /\ \A id \in DOMAIN syncState[t] : syncState[t][id] = transferred[t][id]

C3_PushRecordsHash ==
  Pushing =>
    \A id \in trace.reported :
      /\ id \in DOMAIN syncState[trace.type]
      /\ syncState[trace.type][id] = hashContent(trace.read[id])

\* C4: a backend push writes no object that fails the looks-encrypted
\* gate; pushResource throws on such a payload and writes nothing;
\* pushResourceBatch counts the item as failed, leaves its object alone
\* and still writes the siblings that pass the gate.
C4_GateBeforeWrite ==
  [][opts'.cmd \in {"pushResource", "pushResourceBatch"} =>
       LET t == trace'.type
           items == encryptedResources'
           bad == {i \in 1..Len(items) : ~isEncrypted(items[i].data)}
           was(k) == IF k \in DOMAIN remote[t] THEN <<remote[t][k]>> ELSE <<>>
           is(k) == IF k \in DOMAIN remote'[t] THEN <<remote'[t][k]>> ELSE <<>>
       IN /\ \A k \in DOMAIN remote'[t] : is(k) # was(k) => isEncrypted(remote'[t][k])
          /\ \A i \in bad :
               /\ items[i].id \notin trace'.reported
               /\ is(getResourceKey(items[i].id)) = was(getResourceKey(items[i].id))
          /\ (opts'.cmd = "pushResource" /\ bad # {}) => (trace'.threw /\ remote' = remote)
          /\ opts'.cmd = "pushResourceBatch" =>
               /\ counts'.failed >= Cardinality(bad)
               /\ counts'.pushed + counts'.failed = Len(items)
               /\ \A i \in 1..Len(items) :
                    (i \notin bad /\ items[i].id \notin trace'.ioFailed)
                       => is(getResourceKey(items[i].id)) = <<items[i].data>>]_vars

\* C4 witness: a batch in which one item failed the gate, was counted as
\* failed, and its sibling was pushed.
C4_Witness ==
  /\ opts.cmd = "pushResourceBatch"
  /\ Len(encryptedResources) = 2
  /\ ~isEncrypted(encryptedResources[1].data)
  /\ encryptedResources[2].id \in trace.reported
  /\ counts.failed = 1 /\ counts.pushed = 1

\* Classification of a full-reconciliation pull has just ended.
Classified ==
  /\ Pulling /\ opts.all /\ pc = "pull_conflicts"
  /\ cidx = 1 /\ trace.prompts = 0 /\ DOMAIN trace.resolved = {}

\* The comparison of remote id r with its local match was completed.
Compared(r) == r \in trace.fetched /\ canDecrypt(payloadOf(r))

\* The local and the decrypted remote content of r hash differently.
Differs(r) ==
  hashContent(localFiles[trace.type][trace.matched[r]]) # hashContent(decrypt(payloadOf(r)))

\* C5: in a full-reconciliation pull, a remote id with a local match whose
\* comparison completed has exactly one conflict entry when the hashes of
\* the local and the decrypted remote content differ, and none when they
\* are equal.
C5_ConflictIffHashesDiffer ==
  Classified =>
    \A r \in DOMAIN trace.matched :
      Compared(r) =>
        Cardinality({i \in 1..Len(conflicts) : conflicts[i].id = r})
          = IF Differs(r) THEN 1 ELSE 0

\* C5 witness: one matched remote id with equal content and no conflict,
\* another with different content and a conflict.
C5_Witness ==
  /\ Classified
  /\ \E r \in DOMAIN trace.matched : Compared(r) /\ ~Differs(r)
  /\ \E r \in DOMAIN trace.matched : Compared(r) /\ Differs(r)
  /\ Len(conflicts) = 1

\* C6: a keep-both answer that succeeds leaves every existing local file,
\* the canonical one included, with the bytes it had and creates the file
\* at the type's conflict location with the decrypted remote payload.
C6_KeepBothFrame ==
  [][(Answered("both") /\ pc' # "done") =>
       LET t == trace.type
           c == conflicts[cidx]
           cp == ConflictLocation(t, c)
       IN /\ cp # c.localPath
          /\ cp \in DOMAIN localFiles'[t]
          /\ localFiles'[t][cp] = decrypt(payloadOf(c.id))
          /\ localFiles'[t][c.localPath] = localFiles[t][c.localPath]
          /\ \A p \in DOMAIN localFiles[t] \ {cp} : localFiles'[t][p] = localFiles[t][p]
          /\ \A u \in ResourceTypes \ {t} : localFiles'[u] = localFiles[u]]_vars

\* C6 witness: a conflict answered keep-both whose copy is at the conflict
\* location while the pull goes on.
C6_Witness ==
  /\ Pulling /\ pc \in {"pull_conflicts", "pull_items"}
  /\ \E i \in 1..Len(conflicts) :
       /\ conflicts[i].id \in DOMAIN trace.resolved
       /\ trace.resolved[conflicts[i].id] = "both"
       /\ ConflictLocation(trace.type, conflicts[i]) \in DOMAIN localFiles[trace.type]
       /\ localFiles[trace.type][conflicts[i].localPath]
            # localFiles[trace.type][ConflictLocation(trace.type, conflicts[i])]

\* C7: a keep-local answer writes nothing and adds nothing to the pull
\* list, and the id is never in the pull list nor given to handler.write
\* for the rest of the pull.
C7_KeepLocalFrame ==
  /\ [][Answered("local") =>
          /\ localFiles' = localFiles
          /\ toPull' = toPull
          /\ trace'.written = trace.written]_vars
  /\ [](Pulling =>
          \A id \in DOMAIN trace.resolved :
             trace.resolved[id] = "local" =>
               (id \notin trace.written /\ id \notin Range(toPull)))

\* C7 witness: a conflict answered keep-local in a pull that wrote other
\* resources.
C7_Witness ==
  /\ Pulling /\ pc = "pull_save"
  /\ \E id \in DOMAIN trace.resolved : trace.resolved[id] = "local"
  /\ trace.written # {}

\* C8: when the pull list of a full-replace type has been worked through,
\* for each conflict that was resolved keep-remote and whose pull
\* succeeded, the local copy that was in conflict holds the decrypted
\* remote content.
C8_KeepRemoteOverwrites ==
  (Pulling /\ pc = "pull_save" /\ strategy(trace.type) = "full") =>
    \A id \in trace.written \cap DOMAIN trace.resolved :
      trace.resolved[id] = "remote" =>
        localFiles[trace.type][trace.matched[id]] = decrypt(payloadOf(id))

\* C9: with force, no prompt is shown and, once the conflicts are
\* resolved, every detected conflict's id is in the pull list.
C9_ForceKeepsRemote ==
  (Pulling /\ opts.force) =>
    /\ trace.prompts = 0
    /\ pc \in {"pull_items", "pull_save"} =>
         \A i \in 1..Len(conflicts) : conflicts[i].id \in Range(toPull)

\* C9 witness: a forced pull that detected a conflict and wrote its
\* remote resource.
C9_Witness ==
  /\ Pulling /\ opts.force /\ pc = "pull_save"
  /\ Len(conflicts) > 0
  /\ conflicts[1].id \in trace.written

\* The file at path p of the type's files is one findLocal enumerates.
Enumerated(type, files, p) ==
  p \in globbed(type, files) /\ ~(skipsEmpty(type) /\ byteLength(files[p]) = 0)

\* Remote id r has a local match: an enumerated file with the same id or,
\* failing that, the same basename.
ExistsLocally(type, files, r) ==
  \E p \in DOMAIN files :
    /\ Enumerated(type, files, p)
    /\ \/ idOfPath(type, p) = r
       \/ basenameOf(idOfPath(type, p)) = basenameOf(r)

\* C10: a default-mode pull compares no content, raises no conflict,
\* pulls exactly the remote ids without a local match, and leaves every
\* enumerated local file as it was.
C10_DefaultPullsNewOnly ==
  (Pulling /\ ~opts.all /\ opts.session = <<>>
     /\ pc \in {"pull_conflicts", "pull_items", "pull_save"}) =>
    LET t == trace.type IN
    /\ trace.compared = {} /\ conflicts = <<>> /\ trace.prompts = 0
    /\ Range(toPull) = {r \in Range(remoteResources) : ~ExistsLocally(t, trace.before, r)}
    /\ trace.written \subseteq Range(toPull)
    /\ \A p \in DOMAIN trace.before :
         Enumerated(t, trace.before, p) =>
           (p \in DOMAIN localFiles[t] /\ localFiles[t][p] = trace.before[p])

\* C10 witness: a default-mode pull that wrote a new remote resource and
\* skipped one that exists locally.
C10_Witness ==
  /\ Pulling /\ ~opts.all /\ opts.session = <<>> /\ pc = "pull_save"
  /\ trace.written # {}
  /\ DOMAIN trace.matched # {}

\* The ids of a sequence of items
idsOf(items) == {items[i].id : i \in 1..Len(items)}

\* C11: after a batch push in which some item failed to read or encrypt
\* and every upload succeeded, each other item is on the remote and has
\* a sync record, and the failed item has none.
C11_BatchFailureIsolated ==
  (Pushing /\ Len(resources) >= 2 /\ trace.given # {} /\ ~trace.threw
     /\ trace.ioFailed = {} /\ Len(encryptedResources) < Len(resources)) =>
    /\ \A id \in idsOf(encryptedResources) :
         /\ id \in trace.reported
         /\ getResourceKey(id) \in DOMAIN remote[trace.type]
         /\ id \in DOMAIN syncState[trace.type]
    /\ \A id \in idsOf(resources) \ idsOf(encryptedResources) :
         id \notin DOMAIN syncState[trace.type]

----------------------------------------------------------------------------
(* Pushing a resource type more than once *)

\* Push commands in one behaviour.
MaxPushes == 2

\* A machine that holds one session, never synced
LocalSolo ==
  [sessions |-> [q \in {SessionP} |-> X], agents |-> EmptyMap, settings |-> EmptyMap]

\* `claude-sync push --type sessions`, with and without --all
SessionPushes ==
  {o \in PushOptions : o.type = "sessions" /\ o.session = <<>> /\ o.file = <<>>
                       /\ ~o.dryRun}

\* What the user does to the sessions between two pushes
SessionEdits == {e \in EditChoices : e[1] = "sessions"}

\* Before any command: nothing is being pushed or pulled
CommandIdle ==
  /\ pc = "idle"
  /\ opts = NoOpts
  /\ typesLeft = <<>>
  /\ remoteResources = <<>>
  /\ conflicts = <<>>
  /\ cidx = 1
  /\ toPull = <<>>
  /\ pidx = 1
  /\ hashUpdates = <<>>
  /\ counts = NoCounts
  /\ resources = <<>>
  /\ encryptedResources = <<>>
  /\ eidx = 1
  /\ exitCode = 0
  /\ trace = NoTrace
  /\ opsDone = 0
  /\ editsDone = 0

InitRepush ==
  /\ backendKind \in {"git", "s3"}
  /\ initialized = TRUE
  /\ localFiles \in {LocalSolo, LocalTwo}
  /\ remote = NoFiles
  /\ syncState = [t \in ResourceTypes |-> EmptyMap]
  /\ transferred = [t \in ResourceTypes |-> EmptyMap]
  /\ CommandIdle
  /\ AuxIdle

NextRepush ==
  \/ opsDone < MaxPushes /\ \E o \in SessionPushes : PushStart(o)
  \/ pc = "push_type" /\ \E lo \in Perms(globbed(curType, localFiles[curType])),
        io \in IoOutcomes : PushType(lo, io)
  \/ \E fs \in SUBSET {it.id : it \in Range(resources)} : PushEncrypt(fs)
  \/ \E fs \in SUBSET {it.id : it \in Range(encryptedResources)}, tf \in BOOLEAN :
        PushUpload(fs, tf)
  \/ opsDone < MaxPushes /\ \E e \in SessionEdits : LocalEdit(e)
  \/ Finish

SpecRepush == InitRepush /\ [][NextRepush]_vars

\* The item's file holds what an earlier push command transferred for its id.
UnchangedSincePush(type, item) ==
  /\ item.id \in DOMAIN transferred[type]
  /\ transferred[type][item.id] = hashContent(localFiles[type][item.path])

\* C12: a push with change filtering is idempotent: a resource whose
\* content is what an earlier push transferred is not in the candidate
\* set of the next filtered push, and that push calls no backend push
\* for it.
C12_RepushIdempotent ==
  [][(pc = "push_type" /\ ~opts.all) =>
       /\ \A i \in 1..Len(resources') :
            ~UnchangedSincePush(curType, resources'[i])
       /\ (\A p \in globbed(curType, localFiles[curType]) :
              UnchangedSincePush(curType, [id |-> idOfPath(curType, p), path |-> p]))
            => remote' = remote /\ transferred' = transferred]_vars

\* C13: session p/s was pushed with content X by an earlier command and
\* is the only session; its content is now Y.  At the next filtered push
\* the sync state holds hash(X) for p/s and the candidate set is exactly
\* {p/s}.
C13_ChangeDetectedAfterPush ==
  [][(pc = "push_type" /\ ~opts.all /\ curType = "sessions"
        /\ DOMAIN localFiles["sessions"] = {SessionP}
        /\ localFiles["sessions"][SessionP] = Y
        /\ SessionP \in DOMAIN transferred["sessions"]
        /\ transferred["sessions"][SessionP] = hashContent(X)) =>
       /\ SessionP \in DOMAIN syncState["sessions"]
       /\ syncState["sessions"][SessionP] = hashContent(X)
       /\ idsOf(resources') = {SessionP}]_vars

\* C14: during a pull, a failure while processing one item (backend
\* pull, decrypt, local write, saving a keep-both copy) does not end the
\* command: the step in which an item fails leaves the exit code zero and
\* the command goes on with the remaining items.
C14_PullItemFailureIsolated ==
  [][(Pulling /\ opts.session = <<>> /\ trace'.itemFailed # trace.itemFailed
        /\ trace.type = trace'.type) =>
       exitCode' = 0 /\ pc' # "done"]_vars

\* C15: a push whose precondition check passed never fails as a whole:
\* once it has started on a resource type, whatever fails to read,
\* encrypt or upload, and whatever the transport does, the command does
\* not end with a non-zero exit code.
C15_PushNeverFailsAsWhole ==
  (Pushing /\ trace.type # "none") => exitCode = 0

----------------------------------------------------------------------------
(* utils/syncState.ts on its file, ~/.claude-sync/sync-state.json *)

\* Calls of updateResourceHash / updateResourceHashBatch in one behaviour.
MaxUpdaters == 2

\* What JSON.parse can return: an object with version and resources
\* ("state"), or a value that is valid JSON and no SyncState.
JsonState(res) == [shape |-> "state", resources |-> res]
JsonNull == [shape |-> "null"]
JsonArray == [shape |-> "array"]
JsonBare == [shape |-> "object"]

\* createEmptySyncState()
createEmptySyncState == JsonState([t \in ResourceTypes |-> EmptyMap])

\* A state file: missing, bytes that are not JSON ("text": anything from
\* an empty file to a truncated document), or a JSON document.
FileMissing == [kind |-> "missing"]
FileText == [kind |-> "text"]
FileJson(v) == [kind |-> "json", value |-> v]

\* loadSyncState(): readFile and JSON.parse in one try block
loadSyncState(file) ==
  IF file.kind = "json" THEN file.value ELSE createEmptySyncState

\* The file after fs.writeFile has opened it with flag "w" and before
\* the data is written: truncated.
truncated(file) == FileText

\* saveSyncState(state): the file once writeFile has resolved
saveSyncState(state) == FileJson(state)

\* updateResourceHash(type, id, hash), the assignment
updateResourceHash(state, type, id, hash) ==
  [state EXCEPT ![type] = Put(@, id, hash)]

\* state.resources[type] throws a TypeError unless state is an object
\* with a resources member.
mutable(v) == v.shape = "state"

\* The calls of the scenarios: op, type and the [id, hash] updates
StoreCalls ==
  {[op |-> "one", type |-> "sessions",
    updates |-> <<[id |-> SessionP, hash |-> hashContent(X)]>>],
   [op |-> "one", type |-> "agents",
    updates |-> <<[id |-> <<"a">>, hash |-> hashContent(Y)]>>],
   [op |-> "batch", type |-> "sessions",
    updates |-> <<[id |-> SessionQ, hash |-> hashContent(Y)],
                  [id |-> <<"r", "/", "t">>, hash |-> hashContent(X)]>>]}

\* The body of the call between the two awaits
mutated(call, v) ==
  JsonState(IF call.op = "one"
              THEN updateResourceHash(v.resources, call.type, call.updates[1].id,
                                      call.updates[1].hash)
              ELSE updateResourceHashBatch(v.resources, call.type, call.updates))

\* State files a call can find
StateFiles ==
  {FileMissing, FileText, FileJson(JsonNull), FileJson(JsonArray), FileJson(JsonBare),
   FileJson(createEmptySyncState),
   FileJson(JsonState([t \in ResourceTypes |->
              IF t = "settings" THEN [i \in {SETTINGS_ID} |-> hashContent(J1)]
              ELSE EmptyMap]))}

InFlight(u) == u.at \in {"load", "save", "writing"}

KeepCommand ==
  UNCHANGED <<initialized, backendKind, localFiles, remote, syncState, pc, opts,
              typesLeft, remoteResources, conflicts, cidx, toPull, pidx, hashUpdates,
              counts, resources, encryptedResources, eidx, exitCode, trace, opsDone,
              editsDone, transferred>>

\* A caller invokes updateResourceHash or updateResourceHashBatch; the
\* call runs up to its first await (readFile).
UpdateBegin(call) ==
  /\ Len(updaters) < MaxUpdaters
  /\ \A i \in 1..Len(updaters) : updaters[i].call # call
  /\ updaters' = Append(updaters,
        [call |-> call, at |-> "load", state |-> JsonNull,
         overlapped |-> \E i \in 1..Len(updaters) : InFlight(updaters[i]),
         loaded |-> JsonNull, loads |-> 0, saves |-> 0])
  /\ UNCHANGED <<stateFile, input, output>>
  /\ KeepCommand

\* readFile resolves: loadSyncState returns, the call mutates what it
\* got and runs into saveSyncState up to the await of mkdir.
UpdateLoad(i) ==
  /\ i \in 1..Len(updaters)
  /\ updaters[i].at = "load"
  /\ LET v == loadSyncState(stateFile)
     IN updaters' = [updaters EXCEPT ![i] =
          IF mutable(v) THEN [@ EXCEPT !.at = "save", !.state = mutated(updaters[i].call, v),
                                       !.loaded = v, !.loads = updaters[i].loads + 1]
          ELSE [@ EXCEPT !.at = "threw", !.loaded = v, !.loads = updaters[i].loads + 1]]
  /\ UNCHANGED <<stateFile, input, output>>
  /\ KeepCommand

\* mkdir resolves and fs.writeFile opens the file
UpdateTruncate(i) ==
  /\ i \in 1..Len(updaters)
  /\ updaters[i].at = "save"
  /\ stateFile' = truncated(stateFile)
  /\ updaters' = [updaters EXCEPT ![i].at = "writing"]
  /\ UNCHANGED <<input, output>>
  /\ KeepCommand

\* fs.writeFile has written the document and resolves; the call returns
UpdateWrite(i) ==
  /\ i \in 1..Len(updaters)
  /\ updaters[i].at = "writing"
  /\ stateFile' = saveSyncState(updaters[i].state)
  /\ updaters' = [updaters EXCEPT ![i] = [@ EXCEPT !.at = "done",
                                                    !.saves = updaters[i].saves + 1]]
  /\ UNCHANGED <<input, output>>
  /\ KeepCommand

\* The process is interrupted: every call in flight ends where it is.
Interrupt ==
  /\ \E i \in 1..Len(updaters) : InFlight(updaters[i])
  /\ updaters' = [i \in 1..Len(updaters) |->
                    IF InFlight(updaters[i]) THEN [updaters[i] EXCEPT !.at = "killed"]
                    ELSE updaters[i]]
  /\ UNCHANGED <<stateFile, input, output>>
  /\ KeepCommand

\* A caller awaits loadSyncState()
LoadState ==
  /\ input' = <<stateFile>>
  /\ output' = <<loadSyncState(stateFile)>>
  /\ UNCHANGED <<stateFile, updaters>>
  /\ KeepCommand

InitStore ==
  /\ backendKind = "git"
  /\ initialized = TRUE
  /\ localFiles = NoFiles
  /\ remote = NoFiles
  /\ syncState = [t \in ResourceTypes |-> EmptyMap]
  /\ transferred = [t \in ResourceTypes |-> EmptyMap]
  /\ CommandIdle
  /\ stateFile \in StateFiles
  /\ updaters = <<>>
  /\ input = <<>>
  /\ output = <<>>

NextStore ==
  \/ \E call \in StoreCalls : UpdateBegin(call)
  \/ \E i \in 1..Len(updaters) : UpdateLoad(i)
  \/ \E i \in 1..Len(updaters) : UpdateTruncate(i)
  \/ \E i \in 1..Len(updaters) : UpdateWrite(i)
  \/ Interrupt
  \/ LoadState

SpecStore == InitStore /\ [][NextStore]_vars

\* The loaded state holds the record of every update of the call.
Recorded(call, v) ==
  /\ v.shape = "state"
  /\ \A k \in 1..Len(call.updates) :
       /\ call.updates[k].id \in DOMAIN v.resources[call.type]
       /\ v.resources[call.type][call.updates[k].id] = call.updates[k].hash

\* C16: whatever the state file holds (nothing, bytes that do not parse,
\* a JSON document that is no SyncState), load returns a structurally
\* valid SyncState: an object with a version and a resources map.
C16_LoadAlwaysValid ==
  Len(output) = 1 => output[1].shape = "state"

\* C17: updates issued concurrently in one process are serialized: once
\* all of them have returned, the persisted state holds the records of
\* every one of them.
C17_NoLostUpdate ==
  (Len(updaters) >= 2 /\ \A i \in 1..Len(updaters) : updaters[i].at = "done") =>
    \A i \in 1..Len(updaters) : Recorded(updaters[i].call, loadSyncState(stateFile))

\* C18: save is atomic: with calls issued one after another, after an
\* interruption at any point of an update a load still returns every
\* record of every update that had completed.
C18_SaveAtomic ==
  (/\ \A i \in 1..Len(updaters) : ~updaters[i].overlapped /\ ~InFlight(updaters[i])
   /\ \E i \in 1..Len(updaters) : updaters[i].at = "killed") =>
    \A i \in 1..Len(updaters) :
       updaters[i].at = "done" => Recorded(updaters[i].call, loadSyncState(stateFile))

----------------------------------------------------------------------------
(* settings.ts merge on any two documents *)

\* The values of the key "mode": absent, a scalar, a nested object
ModeValues ==
  {<<>>, <<"s", "x">>, <<"s", "y">>,
   <<"o", [mode |-> <<"s", "x">>, tags |-> <<"a", "t1">>]>>,
   <<"o", [mode |-> <<"s", "y">>, tags |-> <<"a", "t2", "t1">>]>>}

\* The values of the key "tags": absent, arrays of strings and of objects
TagsValues ==
  {<<>>, <<"a", "t1">>, <<"a", "t2", "t1">>, <<"a", "{h}">>, <<"a", "t1", "{h}">>,
   <<"s", "x">>}

\* settings.json documents: any object over the two keys, and one that
\* does not parse
MergeDocs ==
  {Json("compact", [mode |-> m, tags |-> t]) : m \in ModeValues, t \in TagsValues}
    \cup {Text("X"), JsonValue("null"), JsonValue("5")}

\* handler.merge(local, remote) is called: it returns the merged
\* document or raises
MergeApply ==
  /\ Len(input) = 2 /\ output = <<>>
  /\ output' = IF mergeThrows(input[1], input[2]) THEN <<"threw", "TypeError">>
               ELSE <<merge(input[1], input[2])>>
  /\ UNCHANGED <<stateFile, updaters, input>>
  /\ KeepCommand

InitMerge ==
  /\ backendKind = "git"
  /\ initialized = TRUE
  /\ localFiles = NoFiles
  /\ remote = NoFiles
  /\ syncState = [t \in ResourceTypes |-> EmptyMap]
  /\ transferred = [t \in ResourceTypes |-> EmptyMap]
  /\ CommandIdle
  /\ stateFile = FileMissing
  /\ updaters = <<>>
  /\ input \in {<<l, r>> : l \in MergeDocs, r \in MergeDocs}
  /\ output = <<>>

NextMerge == MergeApply

SpecMerge == InitMerge /\ [][NextMerge]_vars

\* The elements of an array value
elems(v) == Range(Tail(v))

\* No element occurs twice in the array value.
Deduplicated(v) == Cardinality(elems(v)) = Len(v) - 1

RECURSIVE MergedAsSpecified(_, _, _)
\* m is, key by key, what the merge of local l and remote r is specified
\* to be wherever both sides hold the key.
MergedAsSpecified(l, r, m) ==
  \A k \in JsonKeys :
    (Len(l[k]) > 0 /\ Len(r[k]) > 0) =>
      IF isArray(l[k]) /\ isArray(r[k])
        THEN /\ isArray(m[k])
             /\ elems(m[k]) = elems(l[k]) \cup elems(r[k])
             /\ Deduplicated(m[k])
      ELSE IF isObject(l[k]) /\ isObject(r[k])
        THEN isObject(m[k]) /\ MergedAsSpecified(l[k][2], r[k][2], m[k][2])
      ELSE Len(m[k]) = Len(l[k]) /\ m[k][1] = l[k][1] /\ m[k] = l[k]

\* C19: for every key present on both sides, merge(local, remote) holds
\* the deduplicated set union of two lists, the recursive merge of two
\* objects, and the local value otherwise; and the list is the same set
\* when the two sides are exchanged.
C19_MergeStrategy ==
  Len(output) = 1 =>
    LET l == parseOrEmpty(input[1])
        r == parseOrEmpty(input[2])
    IN /\ MergedAsSpecified(l, r, output[1].obj)
       /\ \A k \in JsonKeys :
            (isArray(l[k]) /\ isArray(r[k])) =>
               elems(output[1].obj[k]) = elems(merge(input[2], input[1]).obj[k])

----------------------------------------------------------------------------
(* Resource ids through the backends' keys *)

\* Characters in a resource id.
MaxIdLen == 3

\* A letter, a digit, and the three other characters an id may hold
IdChars == {"a", "7", "-", "_", "/"}

ResourceIds == UNION {[1..n -> IdChars] : n \in 1..MaxIdLen}

\* pushResource(type, id) names the object; listResources() reads the
\* name back into an id.
KeyRoundTrip ==
  /\ Len(input) = 1 /\ output = <<>>
  /\ output' = <<parseResourceId(getResourceKey(input[1]))>>
  /\ UNCHANGED <<stateFile, updaters, input>>
  /\ KeepCommand

InitKeys ==
  /\ backendKind \in {"git", "s3"}
  /\ initialized = TRUE
  /\ localFiles = NoFiles
  /\ remote = NoFiles
  /\ syncState = [t \in ResourceTypes |-> EmptyMap]
  /\ transferred = [t \in ResourceTypes |-> EmptyMap]
  /\ CommandIdle
  /\ stateFile = FileMissing
  /\ updaters = <<>>
  /\ input \in {<<id>> : id \in ResourceIds}
  /\ output = <<>>

NextKeys == KeyRoundTrip

SpecKeys == InitKeys /\ [][NextKeys]_vars

\* C20: on either backend, escaping an id into its remote key and
\* parsing the key back yields the id.
C20_KeyRoundTrip ==
  Len(output) = 1 => output[1] = input[1]

----------------------------------------------------------------------------
(* Enumeration, preconditions and dry runs *)

\* C21: no handler's enumeration returns a zero-byte local file, with or
\* without the changed-since-last-sync filter: no candidate of a push
\* is an empty file.
C21_NoEmptyEnumerated ==
  (Pushing /\ trace.type # "none") =>
    \A i \in 1..Len(resources) :
       byteLength(localFiles[trace.type][resources[i].path]) # 0

\* A non-dry-run push or any pull is running or has ended.
NeedsConfig == Pulling \/ (Pushing /\ ~opts.dryRun)

\* C22: without an initialized configuration a non-dry-run push and any
\* pull end with a non-zero exit code at once: the step that starts the
\* command ends it and changes no remote object, local file or sync
\* record, and the command has listed, fetched, compared, written and
\* uploaded nothing.
C22_UninitializedAborts ==
  /\ [][(pc = "idle" /\ ~initialized /\ opts'.cmd # "none" /\ NeedsConfig') =>
          /\ pc' = "done" /\ exitCode' # 0
          /\ UNCHANGED <<remote, localFiles, syncState, transferred, stateFile>>]_vars
  /\ []((~initialized /\ NeedsConfig) =>
          pc = "done" /\ exitCode # 0 /\ trace = NoTrace)

C22_Witness ==
  ~initialized /\ Pulling /\ pc = "done" /\ exitCode = 1 /\ DOMAIN remote["sessions"] # {}

\* C23: a dry-run pull has no effects: it downloads no remote payload,
\* writes no local or conflict file, never prompts and leaves the sync
\* state unchanged, with or without full reconciliation.
C23_DryRunPullNoEffects ==
  /\ [][(Pulling /\ opts.dryRun) =>
          UNCHANGED <<localFiles, syncState, remote, stateFile>>]_vars
  /\ []((Pulling /\ opts.dryRun) =>
          trace.fetched = {} /\ trace.written = {} /\ trace.prompts = 0)

----------------------------------------------------------------------------
(* crypto/encrypt.ts on any payload *)

\* Payloads handed to encrypt: text (the empty one included), JSON
\* documents in both layouts, and bytes that are not valid UTF-8
CryptoPayloads ==
  {Text(t) : t \in {"", "hi", "X", "Y"}}
    \cup {Bin(t) : t \in {"B", "X"}}
    \cup {Json(st, d.obj) : st \in {"compact", "pretty"},
                            d \in {e \in MergeDocs : e.fmt = "json"}}

\* encrypt(data) and then decrypt of the result, turned back into a
\* Buffer as the callers do
EncryptDecrypt ==
  /\ Len(input) = 1 /\ output = <<>>
  /\ canDecrypt(encrypt(input[1]))
  /\ output' = <<decrypt(encrypt(input[1]))>>
  /\ UNCHANGED <<stateFile, updaters, input>>
  /\ KeepCommand

InitCrypto ==
  /\ backendKind = "git"
  /\ initialized = TRUE
  /\ localFiles = NoFiles
  /\ remote = NoFiles
  /\ syncState = [t \in ResourceTypes |-> EmptyMap]
  /\ transferred = [t \in ResourceTypes |-> EmptyMap]
  /\ CommandIdle
  /\ stateFile = FileMissing
  /\ updaters = <<>>
  /\ input \in {<<c>> : c \in CryptoPayloads}
  /\ output = <<>>

NextCrypto == EncryptDecrypt

SpecCrypto == InitCrypto /\ [][NextCrypto]_vars

\* C24: for every payload, the empty one included, decrypting what
\* encrypt returned gives the payload back.
C24_EncryptRoundTrip ==
  Len(output) = 1 => output[1] = input[1]

----------------------------------------------------------------------------
(* The conflict engine within one pull *)

\* The remote ids compared with a local file and found without conflict
NoConflictIds == trace.compared \ Range(trace.conflictsSeen)

\* C25: within one pull, every detected conflict reaches exactly one of
\* the outcomes local, remote, both: once conflict handling is over, or
\* the command has ended, each detected conflict has its outcome; an
\* outcome never changes; and a remote item classified as no conflict
\* is never written.
C25_ConflictOutcomes ==
  /\ [][(Pulling /\ Pulling' /\ trace'.type = trace.type) =>
          \A id \in DOMAIN trace.resolved :
             id \in DOMAIN trace'.resolved /\ trace'.resolved[id] = trace.resolved[id]]_vars
  /\ []((Pulling /\ ~opts.dryRun /\ opts.session = <<>>) =>
          /\ \A id \in DOMAIN trace.resolved :
                trace.resolved[id] \in {"local", "remote", "both"}
          /\ NoConflictIds \cap trace.written = {}
          /\ pc \in {"pull_items", "pull_save", "pull_type", "done"} =>
                Range(trace.conflictsSeen) \subseteq DOMAIN trace.resolved)

\* The bytes at the place handler.write puts the resource
writtenBytes(files, type, id) == files[type][getLocalPath(type, id)]

Uncompleted(tr) ==
  {id \in tr.compared :
     id \notin tr.fetched \/ ~canDecrypt(remote[tr.type][getResourceKey(id)])}

\* C27: when the comparison for a remote id with a local match cannot be
\* completed, the id is classified as no conflict (it is neither a
\* conflict nor on the pull list) and the classification goes on: the
\* command does not fail, every listed id is classified, and every other
\* compared id is a conflict exactly when its hashes differ.
C27_UncomparableIsNoConflict ==
  [][(Pulling /\ pc = "pull_type" /\ opts.all /\ Uncompleted(trace') # {}) =>
       /\ exitCode' = 0
       /\ Range(remoteResources') =
            {parseResourceId(k) : k \in DOMAIN remote[trace'.type]}
       /\ Uncompleted(trace') \cap Range(trace'.conflictsSeen) = {}
       /\ Uncompleted(trace') \cap Range(toPull') = {}
       /\ \A id \in trace'.compared \ Uncompleted(trace') :
            id \in Range(trace'.conflictsSeen) <=>
              hashContent(localFiles[trace'.type][trace'.matched[id]])
                # hashContent(decrypt(remote[trace'.type][getResourceKey(id)]))]_vars

\* One comparison failed and another id of the same listing is a conflict.
C27_Witness ==
  /\ Pulling /\ opts.all /\ pc = "pull_conflicts"
  /\ Uncompleted(trace) # {} /\ Len(conflicts) >= 1

\* C28: when a merge-strategy resource is pulled with full
\* reconciliation and a local copy exists, what is written is the
\* handler's merge of the local plaintext and the decrypted remote
\* payload, not the remote payload.
C28_MergedIsWritten ==
  [][(Pulling /\ pc = "pull_items" /\ opts.all /\ strategy(curType) = "merge"
        /\ SETTINGS_ID \in DOMAIN localFiles[curType]
        /\ trace'.written # trace.written) =>
       writtenBytes(localFiles', curType, toPull[pidx]) =
         merge(localFiles[curType][SETTINGS_ID],
               decrypt(remote[curType][getResourceKey(toPull[pidx])]))]_vars

\* The local {mode: x, tags: [t1]} and the remote {mode: y, tags: [t2]}
\* have been merged into the local file.
C28_Witness ==
  /\ Pulling /\ opts.all /\ trace.type = "settings" /\ trace.written = {SETTINGS_ID}
  /\ SETTINGS_ID \in DOMAIN trace.before /\ trace.before[SETTINGS_ID] = J1
  /\ payloadOf(SETTINGS_ID) = encrypt(J2)
  /\ localFiles["settings"][SETTINGS_ID] =
       Json("pretty", [mode |-> <<"s", "x">>, tags |-> <<"a", "t2", "t1">>])

\* The content is malformed for merge: it does not parse, or it parses
\* to something that is no key-value object.
Malformed(c) == c.fmt # "json"

\* C29: merge never raises, whatever the two contents are, and a
\* malformed side counts as the empty object: the result holds the
\* fields of the other side.
C29_MergeTotal ==
  /\ Len(output) # 2
  /\ (Len(output) = 1 /\ Malformed(input[1]) /\ ~Malformed(input[2])) =>
        output[1].obj = input[2].obj
  /\ (Len(output) = 1 /\ Malformed(input[2]) /\ ~Malformed(input[1])) =>
        output[1].obj = input[1].obj

----------------------------------------------------------------------------
(* The change filter of the handlers as a function of the local files and
   the sync state *)

\* Files of a machine whose three resource types each hold an empty file
LocalBlank ==
  [sessions |-> [q \in {SessionP, SessionQ} |-> IF q = SessionP THEN Empty ELSE Y],
   agents |-> [q \in {<<"a">>} |-> Empty],
   settings |-> [q \in {SETTINGS_ID} |-> Empty]]

\* The hashes earlier syncs may have recorded
RecordedHashes == {hashContent(c) : c \in {X, Y, J1}}

\* The sync states: any set of the type's ids recorded, each with any hash
SyncStates(files) ==
  [sessions : UNION {[S -> RecordedHashes] :
                       S \in SUBSET {idOfPath("sessions", q) : q \in DOMAIN files["sessions"]}},
   agents : UNION {[S -> RecordedHashes] : S \in SUBSET DOMAIN files["agents"]},
   settings : UNION {[S -> RecordedHashes] : S \in SUBSET {SETTINGS_ID}}]

\* handler.findLocal({ modifiedSinceLastSync: true }) of one handler
FilterApply(type, order) ==
  /\ input = <<>> /\ output = <<>>
  /\ input' = <<type>>
  /\ output' = <<findLocalModified(type, localFiles[type], order, syncState)>>
  /\ UNCHANGED <<stateFile, updaters>>
  /\ KeepCommand

InitFilter ==
  /\ backendKind = "git"
  /\ initialized = TRUE
  /\ localFiles \in {LocalOne, LocalTwo, LocalBlank}
  /\ remote = NoFiles
  /\ syncState \in SyncStates(localFiles)
  /\ transferred = [t \in ResourceTypes |-> EmptyMap]
  /\ CommandIdle
  /\ stateFile = FileMissing
  /\ updaters = <<>>
  /\ input = <<>>
  /\ output = <<>>

NextFilter ==
  \E type \in ResourceTypes :
     \E order \in Perms(globbed(type, localFiles[type])) : FilterApply(type, order)

SpecFilter == InitFilter /\ [][NextFilter]_vars

\* The item of the file at path p is recorded with the hash of the
\* file's current content.
RecordedSame(type, p) ==
  /\ idOfPath(type, p) \in DOMAIN syncState[type]
  /\ syncState[type][idOfPath(type, p)] = hashContent(localFiles[type][p])

\* C30: with the change filter a handler returns a present, non-empty item
\* exactly when the sync state records no hash for it or records a hash
\* other than that of the file's current content, and it returns nothing
\* that is not present.
C30_FilterByHash ==
  Len(output) = 1 =>
    LET type == input[1]
        files == localFiles[type]
    IN /\ \A p \in DOMAIN files :
            byteLength(files[p]) # 0 =>
              (idOfPath(type, p) \in idsOf(output[1]) <=> ~RecordedSame(type, p))
       /\ idsOf(output[1]) \subseteq {idOfPath(type, p) : p \in DOMAIN files}

\* Of two recorded sessions the one whose file changed is returned and the
\* one whose file has the recorded hash is not.
C30_Witness ==
  /\ Len(output) = 1 /\ Len(input) = 1
  /\ input[1] = "sessions"
  /\ localFiles = LocalTwo
  /\ DOMAIN syncState["sessions"] = {idOfPath("sessions", SessionP), idOfPath("sessions", SessionQ)}
  /\ RecordedSame("sessions", SessionP)
  /\ ~RecordedSame("sessions", SessionQ)
  /\ idsOf(output[1]) = {idOfPath("sessions", SessionQ)}

----------------------------------------------------------------------------
(* The batch update of the sync state *)

\* The ids the call updates
updatedIds(call) == {call.updates[k].id : k \in 1..Len(call.updates)}

\* The state v holds every record of the state w that the call does not
\* update, with the hash it has in w.
OthersKept(call, w, v) ==
  \A t \in ResourceTypes : \A id \in DOMAIN w.resources[t] :
     (t # call.type \/ id \notin updatedIds(call)) =>
        id \in DOMAIN v.resources[t] /\ v.resources[t][id] = w.resources[t][id]

\* C31: a batch update loads the state once and saves once; what the save
\* persists holds all of the call's updates together, and every record of
\* the loaded state that is not among the updates as it was loaded.
C31_BatchOneSave ==
  /\ [][\A i \in 1..Len(updaters) :
          (updaters[i].call.op = "batch" /\ updaters[i].at = "writing"
             /\ i <= Len(updaters') /\ updaters'[i].at = "done") =>
            /\ stateFile'.kind = "json"
            /\ Recorded(updaters[i].call, stateFile'.value)
            /\ OthersKept(updaters[i].call, updaters[i].loaded, stateFile'.value)]_vars
  /\ [](\A i \in 1..Len(updaters) :
          (updaters[i].call.op = "batch" /\ updaters[i].at = "done") =>
             updaters[i].loads = 1 /\ updaters[i].saves = 1)

\* A batch of two updates has returned; it had loaded a state with a
\* settings record and a session record, and the file holds all four.
C31_Witness ==
  /\ Len(updaters) = 2
  /\ updaters[2].call.op = "batch" /\ updaters[2].at = "done"
  /\ updaters[1].at = "done" /\ ~updaters[2].overlapped
  /\ updaters[2].loaded.shape = "state"
  /\ SETTINGS_ID \in DOMAIN updaters[2].loaded.resources["settings"]
  /\ SessionP \in DOMAIN updaters[2].loaded.resources["sessions"]
  /\ stateFile.kind = "json" /\ stateFile.value.shape = "state"
  /\ DOMAIN stateFile.value.resources["sessions"] = {SessionP, SessionQ, <<"r", "/", "t">>}
  /\ SETTINGS_ID \in DOMAIN stateFile.value.resources["settings"]

\* C32: a batch push accounts for every candidate exactly once: the
\* backend's batch upload returns pushed + failed equal to the number of
\* items it was given, and the summary's pushed count plus its failed count
\* (upload failures and read or encrypt failures) is the number of
\* candidates.
C32_EveryCandidateCounted ==
  [][pc = "push_upload" =>
       /\ ~trace'.threw
       /\ counts'.pushed + (counts'.failed - counts.encryptFailed) = Len(encryptedResources)
       /\ counts'.pushed + counts'.failed = Len(resources)]_vars

\* Some conflict whose canonical file is at path p was resolved keep-remote.
KeptRemoteAt(type, p) ==
  \E id \in DOMAIN trace.resolved :
     trace.resolved[id] = "remote" /\ getLocalPath(type, id) = p

\* C33: no pull (default, --all or --session) replaces the content of an
\* existing non-empty canonical local file by something else, unless a
\* conflict on that resource was resolved keep-remote or --force was given.
C33_PullNeverClobbers ==
  [][\A t \in ResourceTypes : \A p \in DOMAIN localFiles[t] :
       (Pulling /\ byteLength(localFiles[t][p]) # 0 /\ localFiles'[t][p] # localFiles[t][p]) =>
          (opts.force \/ KeptRemoteAt(t, p))]_vars

\* The paths of the items findLocal returns for a type
enumeratedPaths(type) ==
  {p \in globbed(type, localFiles[type]) :
     ~(skipsEmpty(type) /\ byteLength(localFiles[type][p]) = 0)}

\* C34: the copy that keep-both writes is no resource: once it is written,
\* findLocal of the type does not return it (so no push uploads it), and
\* it is not at the canonical location of the conflict's resource.
C34_ConflictCopyNotAResource ==
  Pulling =>
    \A i \in 1..Len(conflicts) :
       (/\ conflicts[i].id \in DOMAIN trace.resolved
        /\ trace.resolved[conflicts[i].id] = "both"
        /\ conflictPathOf(trace.type, conflicts[i]) \in DOMAIN localFiles[trace.type]) =>
          /\ conflictPathOf(trace.type, conflicts[i]) \notin enumeratedPaths(trace.type)
          /\ conflictPathOf(trace.type, conflicts[i]) # conflicts[i].localPath

\* What the classification of a pull --all run in the current state, with
\* the glob returning the files in the given order, finds for a remote id:
\* a local match whose content hashes differently from the remote payload.
conflictNow(type, id, order) ==
  LET items == findLocal(type, localFiles[type], order)
      local == findLocalResource(items, id)
  IN /\ local # NoItem
     /\ detectConflict(localFiles[type][local.path], remote[type][getResourceKey(id)], FALSE)

\* C35: conflict resolution converges: once a conflict was resolved
\* keep-remote and the item was pulled, a pull --all that follows without
\* any local or remote change finds no conflict for that id, whatever the
\* type's strategy is.
C35_ResolutionConverges ==
  (Pulling /\ pc \in {"pull_type", "done"} /\ trace.type # "none") =>
    \A id \in trace.written \cap DOMAIN trace.resolved :
       trace.resolved[id] = "remote" =>
         \A order \in Perms(globbed(trace.type, localFiles[trace.type])) :
            ~conflictNow(trace.type, id, order)

\* C36: after a successful pull of a resource the change filter does not
\* return the file that was written, as long as nothing changes it: the
\* record that pull saved is found under the id that findLocal gives the
\* file.
C36_PulledIsUnchanged ==
  (Pulling /\ pc \in {"pull_type", "done"} /\ exitCode = 0 /\ trace.type # "none") =>
    \A id \in trace.written :
       \A order \in Perms(globbed(trace.type, localFiles[trace.type])) :
          \A it \in Range(findLocalModified(trace.type, localFiles[trace.type], order, syncState)) :
             it.path # getLocalPath(trace.type, id)

\* C37: the single-session push of a local file (--session with --file,
\* the command of the SessionEnd hook) uploads it under the id the bulk
\* push gives that file, the id findLocal assigns to its path.
C37_SameIdOnBothPaths ==
  [][(Pushing /\ pc = "push_session" /\ opts.session # <<>> /\ opts.file # <<>>
        /\ trace'.given # {}) =>
       trace'.given = {idOfPath("sessions", opts.file)}]_vars

\* C38: within one resource type no other id is stored under the remote
\* key of a given id, on either backend: distinct ids have distinct keys.
C38_KeysInjective ==
  Len(output) = 1 =>
    \A id \in ResourceIds :
       id # input[1] => getResourceKey(id) # getResourceKey(input[1])

\* C39: whatever the length of the plaintext, zero included, what encrypt
\* returns has at least the minimum size the looks-encrypted gate asks
\* for, and passes the gate.
C39_EncryptedMeetsMinimum ==
  Len(output) = 1 =>
    /\ payloadLength(encrypt(input[1])) >= MIN_ENCRYPTED_SIZE
    /\ isEncrypted(encrypt(input[1]))

====
